---- MODULE Spec2Model ----
(***************************************************************************)
(* Model of npm-file-include (src/src/npmFileInclude.js and its            *)
(* near-duplicate src/unnamed/part_000): the scan of the discovered        *)
(* candidates, the fragment filter, the recursive include resolver and     *)
(* the writer, with the run summary.                                       *)
(*                                                                         *)
(* A JavaScript string is a sequence of characters.  A character is a      *)
(* one-character TLA+ string, except that the ten characters of the        *)
(* literal "@@include(" always occur together and are one element, INC,    *)
(* and the text "undefined" is the one element UNDEF.                      *)
(***************************************************************************)
EXTENDS Integers, Sequences, FiniteSets, TLC

INC   == "@@include("
QUOTE == "'"
CLOSE == ")"
NL    == "\n"
SLASH == "/"
DOLLAR == "$"
UNDEF == "undefined"
\* the grave accent character (a TLA+ string cannot hold it)
GRAVE == "grave"

----------------------------------------------------------------------------
(* String primitives of the JavaScript runtime.                            *)

\* The least and the greatest element of a set of numbers, 0 for the empty
\* set.
Least(S) == IF S = {} THEN 0 ELSE CHOOSE i \in S : \A j \in S : i <= j

Greatest(S) == IF S = {} THEN 0 ELSE CHOOSE i \in S : \A j \in S : j <= i

\* s.indexOf(t), 1-based; 0 when t does not occur in s.
IndexOf(s, t) ==
    Least({ i \in 1..(Len(s) - Len(t) + 1) : SubSeq(s, i, i + Len(t) - 1) = t })

Contains(s, t) == IndexOf(s, t) # 0

\* Number of (possibly overlapping) occurrences of t in s.
Occurrences(s, t) ==
    Cardinality({ i \in 1..(Len(s) - Len(t) + 1) : SubSeq(s, i, i + Len(t) - 1) = t })

\* GetSubstitution of ECMAScript for a string pattern (no captures): in the
\* replacement text $$ is $, $& is the matched text, $ followed by a grave
\* accent is the text before the match and $' the text after it; every
\* other character is literal.
RECURSIVE GetSubstitution(_, _, _, _, _)
GetSubstitution(matched, str, position, replacement, k) ==
    IF k > Len(replacement) THEN <<>>
    ELSE IF replacement[k] = DOLLAR /\ k < Len(replacement)
         THEN LET c == replacement[k + 1]
              IN  IF c = DOLLAR
                  THEN <<DOLLAR>> \o GetSubstitution(matched, str, position, replacement, k + 2)
                  ELSE IF c = "&"
                  THEN matched \o GetSubstitution(matched, str, position, replacement, k + 2)
                  ELSE IF c = GRAVE
                  THEN SubSeq(str, 1, position - 1)
                       \o GetSubstitution(matched, str, position, replacement, k + 2)
                  ELSE IF c = QUOTE
                  THEN SubSeq(str, position + Len(matched), Len(str))
                       \o GetSubstitution(matched, str, position, replacement, k + 2)
                  ELSE <<DOLLAR>> \o GetSubstitution(matched, str, position, replacement, k + 1)
         ELSE <<replacement[k]>> \o GetSubstitution(matched, str, position, replacement, k + 1)

\* String.prototype.replace( searchString, replaceString ): only the first
\* occurrence is replaced, and the replacement text is expanded.
Replace(str, search, replacement) ==
    LET position == IndexOf(str, search)
    IN  IF position = 0 THEN str
        ELSE SubSeq(str, 1, position - 1)
             \o GetSubstitution(search, str, position, replacement, 1)
             \o SubSeq(str, position + Len(search), Len(str))

\* file.split( '/' ): the index of the last '/' of a path, 0 when none.
LastSlash(file) == Greatest({ i \in 1..Len(file) : file[i] = SLASH })

getFilename(file) == SubSeq(file, LastSlash(file) + 1, Len(file))

getDirectory(file) == SubSeq(file, 1, LastSlash(file) - 1)

\* path.dirname of a path that does not end in '/'.
dirname(file) == IF LastSlash(file) = 0 THEN <<".">> ELSE getDirectory(file)

\* `${a}/${b}`
Join(a, b) == a \o <<SLASH>> \o b

----------------------------------------------------------------------------
\* The directive matcher: includePattern, a global regular expression
\* (the literal @@include, a quoted greedy capture of any characters but
\* line terminators, a closing parenthesis), driven by exec.

\* The positions q of a "')" that can close a directive opened at p: the
\* captured text p+2..q-1 holds no line terminator.
Closers(data, p) ==
    { q \in (p + 2)..(Len(data) - 1) :
        /\ data[q] = QUOTE
        /\ data[q + 1] = CLOSE
        /\ \A j \in (p + 2)..(q - 1) : data[j] # NL }

\* The positions at or after from where the pattern matches.
Openers(data, from) ==
    { p \in from..(Len(data) - 3) :
        /\ data[p] = INC
        /\ data[p + 1] = QUOTE
        /\ Closers(data, p) # {} }

\* One match: the text from p to the last closer q of its line, and the
\* capture between the quotes.
Match(data, p, q) ==
    [ string |-> SubSeq(data, p, q + 1), filename |-> SubSeq(data, p + 2, q - 1) ]

\* exec from lastIndex from: the leftmost match, then the matches from its
\* end on; null when there is no match.
RECURSIVE MatchesFrom(_, _)
MatchesAt(data, p) ==
    << Match(data, p, Greatest(Closers(data, p))) >>
    \o MatchesFrom(data, Greatest(Closers(data, p)) + 2)

MatchesFrom(data, from) ==
    IF Openers(data, from) = {} THEN <<>>
    ELSE MatchesAt(data, Least(Openers(data, from)))

getMatches(data) == MatchesFrom(data, 1)

----------------------------------------------------------------------------
(* The bounds of the model and the inputs of a run.                        *)

\* Depth of nested doFileInclude calls at which the engine's call stack is
\* exhausted and the next call throws a RangeError.
MaxStack == 4

\* Number of characters of strings that the heap of the engine holds.
MaxHeap == 60

\* Number of lines of the content of the file r.
MaxLines == 2

\* `@@include('<path>')`
Directive(p) == <<INC, QUOTE>> \o p \o <<QUOTE, CLOSE>>

\* The source directory (option --source) and the destination (option
\* --destination, default 'build').
SourceDir   == <<"s">>
destination == <<"build">>

FileR  == <<"s", SLASH, "r">>
FileA  == <<"s", SLASH, "a">>
FileB  == <<"s", SLASH, "b">>
DirP   == <<"s", SLASH, "p">>
FilePA == <<"s", SLASH, "p", SLASH, "a">>
FilePB == <<"s", SLASH, "p", SLASH, "b">>

Paths == { FileR, FileA, FileB, DirP, FilePA, FilePB }

Absent    == [ kind |-> "none" ]
Folder    == [ kind |-> "dir" ]
File(data) == [ kind |-> "file", data |-> data ]

\* lines.join( '\n' )
RECURSIVE JoinLines(_)
JoinLines(lines) ==
    IF lines = <<>> THEN <<>>
    ELSE IF Len(lines) = 1 THEN lines[1]
    ELSE lines[1] \o <<NL>> \o JoinLines(Tail(lines))

RootLines ==
    { <<"x">>,
      Directive(<<"a">>),
      <<"x">> \o Directive(<<"b">>) \o <<"y">>,
      Directive(<<"p", SLASH, "a">>) }

SeqsUpTo(S, n) == UNION { [1..k -> S] : k \in 1..n }

ContentsR == { File(JoinLines(l)) : l \in SeqsUpTo(RootLines, MaxLines) }

ContentsA ==
    { Absent,
      File(<<"A">>),
      File(<<DOLLAR, DOLLAR, "A", DOLLAR, "&">>),
      File(Directive(<<"b">>)),
      File(Directive(<<"a">>)),
      File(Directive(<<"a">>) \o <<NL>> \o Directive(<<"a">>)) }

ContentsB == { Absent, File(<<"B">>), File(Directive(<<"a">>)) }

ContentsPA == { Absent, File(<<"P">> \o Directive(<<"b">>)) }

ContentsPB == { File(<<"W">>) }

\* Destination paths that cannot be written (read-only, or a directory that
\* cannot be created).
UnwritableChoices ==
    { {},
      { Join(destination, <<"r">>), Join(destination, FileR) },
      { Join(destination, <<"a">>), Join(destination, FileA) } }

----------------------------------------------------------------------------
VARIABLES
    disk,               \* the source tree: path -> file, directory or nothing
    unwritable,         \* the destination paths whose write fails
    includeRecursive,   \* commander.includeRecursive
    omitSourceParent,   \* commander.omitSourceParent
    foundFiles,         \* the result of findFiles
    pc,                 \* the position of init() in its sequence of calls
    scanIdx,            \* checkForPattern: index of the next candidate
    hasPattern,         \* checkForPattern: the files with directives
    filesNotIncluded,   \* the result of removeIncludedFiles
    writeIdx,           \* writeFiles: index of the next root
    stack,              \* the active calls of doFileInclude, outermost first
    contents,           \* writeFiles: the value doFileInclude returned
    summary,            \* summary.written, summary.errors
    output,             \* the destination tree: path -> content written
    reported            \* the counts of the final log line, once logged

vars == << disk, unwritable, includeRecursive, omitSourceParent, foundFiles, pc,
           scanIdx, hasPattern, filesNotIncluded, writeIdx, stack, contents,
           summary, output, reported >>

config == << disk, unwritable, includeRecursive, omitSourceParent, foundFiles >>

\* glob.sync: the candidates in the order of the walk; a directory whose
\* name matches the pattern is a candidate too.
Discovered(d, withFolder) ==
    SelectSeq(<< FileR, FileA, DirP, FileB, FilePA, FilePB >>,
              LAMBDA f : \/ d[f].kind = "file"
                         \/ d[f].kind = "dir" /\ withFolder)

Init ==
    /\ \E r \in ContentsR, a \in ContentsA, b \in ContentsB,
          pa \in ContentsPA, pb \in ContentsPB, withFolder \in BOOLEAN :
          /\ disk = [ f \in Paths |->
                        IF f = FileR THEN r
                        ELSE IF f = FileA THEN a
                        ELSE IF f = FileB THEN b
                        ELSE IF f = FilePA THEN pa
                        ELSE IF f = FilePB THEN pb
                        ELSE Folder ]
          /\ foundFiles = Discovered(disk, withFolder)
    /\ unwritable \in UnwritableChoices
    /\ includeRecursive \in BOOLEAN
    /\ omitSourceParent \in BOOLEAN
    /\ pc = "checkForPattern"
    /\ scanIdx = 1
    /\ hasPattern = <<>>
    /\ filesNotIncluded = <<>>
    /\ writeIdx = 1
    /\ stack = <<>>
    /\ contents = <<>>
    /\ summary = [ written |-> 0, errors |-> 0 ]
    /\ output = << >>
    /\ reported = << >>

----------------------------------------------------------------------------
(* The file system.                                                        *)

\* fs.readFileSync( file, 'utf8' ): the content, or the code of the error
\* thrown.
readFileSync(file) ==
    IF file \in Paths /\ disk[file].kind = "file"
    THEN [ ok |-> TRUE, data |-> disk[file].data ]
    ELSE IF file \in Paths /\ disk[file].kind = "dir"
    THEN [ ok |-> FALSE, code |-> "EISDIR" ]
    ELSE [ ok |-> FALSE, code |-> "ENOENT" ]

getFileContents(file) == readFileSync(file)

----------------------------------------------------------------------------
(* checkForPattern and removeIncludedFiles.                                *)

\* A scan that pushes every candidate it can read, with or without matches.
ScanFile_PushesAll ==
    /\ pc = "checkForPattern"
    /\ scanIdx <= Len(foundFiles)
    /\ LET file == foundFiles[scanIdx]
           read == readFileSync(file)
       IN  IF read.ok
           THEN /\ hasPattern' =
                      Append(hasPattern, [ directory |-> dirname(file),
                                           filename  |-> getFilename(file),
                                           matches   |-> getMatches(read.data) ])
                /\ scanIdx' = scanIdx + 1
           ELSE IF read.code = "EISDIR"
           THEN /\ hasPattern' = hasPattern
                /\ scanIdx' = Len(foundFiles) + 1
           ELSE /\ hasPattern' = hasPattern
                /\ scanIdx' = scanIdx + 1
    /\ UNCHANGED << config, pc, filesNotIncluded, writeIdx, stack, contents,
                    summary, output, reported >>

\* One iteration of the loop of checkForPattern.  A candidate that is read
\* and has matches is pushed; EISDIR is logged and breaks the loop; any
\* other error is swallowed.
ScanFile ==
    /\ pc = "checkForPattern"
    /\ scanIdx <= Len(foundFiles)
    /\ LET file == foundFiles[scanIdx]
           read == readFileSync(file)
       IN  IF read.ok
           THEN LET matches == getMatches(read.data)
                IN  /\ hasPattern' =
                          IF Len(matches) # 0
                          THEN Append(hasPattern, [ directory |-> dirname(file),
                                                    filename  |-> getFilename(file),
                                                    matches   |-> matches ])
                          ELSE hasPattern
                    /\ scanIdx' = scanIdx + 1
           ELSE IF read.code = "EISDIR"
           THEN /\ hasPattern' = hasPattern
                /\ scanIdx' = Len(foundFiles) + 1
           ELSE /\ hasPattern' = hasPattern
                /\ scanIdx' = scanIdx + 1
    /\ UNCHANGED << config, pc, filesNotIncluded, writeIdx, stack, contents,
                    summary, output, reported >>

\* All the matches of the files, in the order of the two nested loops.
RECURSIVE AllMatches(_)
AllMatches(files) ==
    IF files = <<>> THEN <<>> ELSE files[1].matches \o AllMatches(Tail(files))

\* files.filter( file => getFilename( match.filename ) !== file.filename ),
\* once for every match.
RECURSIVE FilterEach(_, _)
FilterEach(files, matches) ==
    IF matches = <<>> THEN files
    ELSE FilterEach(SelectSeq(files,
                        LAMBDA file : getFilename(matches[1].filename) # file.filename),
                    Tail(matches))

\* The filter comparing the whole referenced path with the filename.
RECURSIVE FilterEachPath(_, _)
FilterEachPath(files, matches) ==
    IF matches = <<>> THEN files
    ELSE FilterEachPath(SelectSeq(files,
                            LAMBDA file : matches[1].filename # file.filename),
                        Tail(matches))

removeIncludedFiles_WholePath(files) == FilterEachPath(files, AllMatches(files))

\* The outer loop iterates the array it was given, while files is rebound
\* to the filtered array.
removeIncludedFiles(files) == FilterEach(files, AllMatches(files))

\* The loop of checkForPattern is over: init calls removeIncludedFiles.
RemoveIncludedFiles ==
    /\ pc = "checkForPattern"
    /\ scanIdx > Len(foundFiles)
    /\ filesNotIncluded' = removeIncludedFiles(hasPattern)
    /\ pc' = "writeFiles"
    /\ UNCHANGED << config, scanIdx, hasPattern, writeIdx, stack, contents,
                    summary, output, reported >>

----------------------------------------------------------------------------
(* doFileInclude.  A frame is one active call: its argument file, its      *)
(* local contents, its matches and the index i of the match of the current *)
(* iteration.                                                              *)

\* `File not found: ${file.filename}`
NotFound(file) == <<"File not found: ">> \o file.filename

\* ToString( file.string ): a root, built by checkForPattern, has no
\* property string.
FileString(file) == IF "string" \in DOMAIN file THEN file.string ELSE <<UNDEF>>

\* The first statement of the catch block; insertNotFound is true in every
\* call, as no caller passes it.
CatchContents(file, cont) == Replace(cont, FileString(file), NotFound(file))

\* match.directory, and the match as the argument of the nested call.
MatchFile(file, match) ==
    LET matchDirectory == getDirectory(file.filename)
    IN  [ string    |-> match.string,
          filename  |-> match.filename,
          directory |-> IF matchDirectory # <<>>
                        THEN Join(file.directory, matchDirectory)
                        ELSE file.directory ]

\* A call returns value to the calls of stk: the caller replaces its current
\* match and goes to its next match; with no caller the value goes to
\* writeFiles.
Deliver(stk, value, errors) ==
    IF stk = <<>>
    THEN [ stack |-> <<>>, returned |-> TRUE, value |-> value,
           errors |-> errors ]
    ELSE LET top == stk[Len(stk)]
         IN  [ stack |-> [ stk EXCEPT ![Len(stk)] =
                             [ top EXCEPT
                                 !.contents = Replace(top.contents,
                                                      top.matches[top.i].string, value),
                                 !.i = top.i + 1 ] ],
               returned |-> FALSE, value |-> <<>>,
               errors |-> errors ]

\* An error thrown in the try block of the call of file, whose contents is
\* cont and whose callers are stk: the catch clause takes every error,
\* builds the message, counts the error and the call returns contents.
Throw(stk, file, cont) == Deliver(stk, CatchContents(file, cont), 1)

\* doFileInclude( file ) called by the calls of stk, up to its loop.
Enter(stk, file) ==
    LET read == getFileContents(Join(file.directory, file.filename))
    IN  IF read.ok
        THEN [ stack |-> Append(stk, [ file     |-> file,
                                       contents |-> read.data,
                                       matches  |-> getMatches(read.data),
                                       i        |-> 1 ]),
               returned |-> FALSE, value |-> <<>>, errors |-> 0 ]
        ELSE Throw(stk, file, <<>>)

\* The characters of the strings that the calls of stk and the returned
\* value hold.
RECURSIVE HeapUse(_, _)
HeapUse(stk, value) ==
    IF stk = <<>> THEN Len(value)
    ELSE Len(stk[Len(stk)].contents) + HeapUse(SubSeq(stk, 1, Len(stk) - 1), value)

\* The effect of a step of doFileInclude on the state.  When the strings
\* do not fit in the heap the engine ends the process with a fatal error,
\* which no catch clause takes.
Becomes(result) ==
    IF HeapUse(result.stack, result.value) > MaxHeap
    THEN /\ pc' = "aborted"
         /\ stack' = <<>>
         /\ UNCHANGED << config, scanIdx, hasPattern, filesNotIncluded, writeIdx,
                         contents, summary, output, reported >>
    ELSE /\ stack' = result.stack
         /\ contents' = IF result.returned THEN result.value ELSE contents
         /\ summary' = [ summary EXCEPT !.errors = @ + result.errors ]
         /\ pc' = IF result.returned THEN "mkdirp" ELSE "doFileInclude"
         /\ UNCHANGED << config, scanIdx, hasPattern, filesNotIncluded, writeIdx,
                         output, reported >>

\* writeFiles: the next root is resolved.
CallDoFileInclude ==
    /\ pc = "writeFiles"
    /\ writeIdx <= Len(filesNotIncluded)
    /\ Becomes(Enter(<<>>, filesNotIncluded[writeIdx]))

\* includeRecursive: the current match is resolved by a nested call.
IncludeMatch ==
    /\ pc = "doFileInclude"
    /\ includeRecursive
    /\ Len(stack) < MaxStack
    /\ LET top == stack[Len(stack)]
       IN  /\ top.i <= Len(top.matches)
           /\ Becomes(Enter(stack, MatchFile(top.file, top.matches[top.i])))

\* includeRecursive, the call stack is exhausted: the nested call throws a
\* RangeError in the try block of the caller.
StackOverflow ==
    /\ pc = "doFileInclude"
    /\ includeRecursive
    /\ Len(stack) = MaxStack
    /\ LET top == stack[Len(stack)]
       IN  /\ top.i <= Len(top.matches)
           /\ Becomes(Throw(SubSeq(stack, 1, Len(stack) - 1), top.file,
                            top.contents))

\* Not includeRecursive: the file of the current match is read and inserted
\* as it is; a failed read throws in the try block of this call.
InlineMatch ==
    /\ pc = "doFileInclude"
    /\ ~includeRecursive
    /\ LET top   == stack[Len(stack)]
           below == SubSeq(stack, 1, Len(stack) - 1)
       IN  /\ top.i <= Len(top.matches)
           /\ LET match == MatchFile(top.file, top.matches[top.i])
                  read  == getFileContents(Join(match.directory, match.filename))
              IN  IF read.ok
                  THEN Becomes(Deliver(stack, read.data, 0))
                  ELSE Becomes(Throw(below, top.file, top.contents))

\* The loop over the matches is over: return contents.
ReturnContents ==
    /\ pc = "doFileInclude"
    /\ LET top == stack[Len(stack)]
       IN  /\ top.i > Len(top.matches)
           /\ Becomes(Deliver(SubSeq(stack, 1, Len(stack) - 1), top.contents, 0))

----------------------------------------------------------------------------
(* writeFiles and the end of init.                                         *)

\* The path of the output of a root below the destination.
OutputPath(file) ==
    IF omitSourceParent # TRUE
    THEN Join(file.directory, file.filename)
    ELSE file.filename

\* A writer that counts the file before it is written.
WriteFile_CountsFirst ==
    /\ pc = "mkdirp"
    /\ LET path == Join(destination, OutputPath(filesNotIncluded[writeIdx]))
       IN  IF path \notin unwritable
           THEN /\ output' = (path :> contents) @@ output
                /\ summary' = [ summary EXCEPT !.written = @ + 1 ]
           ELSE /\ output' = output
                /\ summary' = [ summary EXCEPT !.written = @ + 1, !.errors = @ + 1 ]
    /\ writeIdx' = writeIdx + 1
    /\ contents' = <<>>
    /\ pc' = "writeFiles"
    /\ UNCHANGED << config, scanIdx, hasPattern, filesNotIncluded, stack, reported >>

\* mkdirp.sync and fs.writeFileSync of the resolved root: both succeed and
\* the file is counted, or one throws and the error is counted.
WriteFile ==
    /\ pc = "mkdirp"
    /\ LET path == Join(destination, OutputPath(filesNotIncluded[writeIdx]))
       IN  IF path \notin unwritable
           THEN /\ output' = (path :> contents) @@ output
                /\ summary' = [ summary EXCEPT !.written = @ + 1 ]
           ELSE /\ output' = output
                /\ summary' = [ summary EXCEPT !.errors = @ + 1 ]
    /\ writeIdx' = writeIdx + 1
    /\ contents' = <<>>
    /\ pc' = "writeFiles"
    /\ UNCHANGED << config, scanIdx, hasPattern, filesNotIncluded, stack, reported >>

\* writeFiles has returned: the final log line of init.
Report ==
    /\ pc = "writeFiles"
    /\ writeIdx > Len(filesNotIncluded)
    /\ reported' = << summary.written, summary.errors >>
    /\ pc' = "done"
    /\ UNCHANGED << config, scanIdx, hasPattern, filesNotIncluded, writeIdx, stack,
                    contents, summary, output >>

Next ==
    \/ ScanFile
    \/ RemoveIncludedFiles
    \/ CallDoFileInclude
    \/ IncludeMatch
    \/ StackOverflow
    \/ InlineMatch
    \/ ReturnContents
    \/ WriteFile
    \/ Report

Spec == Init /\ [][Next]_vars

----------------------------------------------------------------------------
(* What the resolution of a file is meant to yield, for the properties.    *)

\* The root whose resolution has just returned to writeFiles.
Root == filesNotIncluded[writeIdx]

\* The content of a file of the source tree that can be read.
DataOf(file) == getFileContents(Join(file.directory, file.filename)).data

Readable(file) == getFileContents(Join(file.directory, file.filename)).ok

\* The files the directives of a readable file refer to, in order.
Includes(file) ==
    LET matches == getMatches(DataOf(file))
    IN  [ k \in 1..Len(matches) |-> MatchFile(file, matches[k]) ]

\* data from position from on, with the k-th and later directive
\* occurrences replaced, each at its own position, by the texts texts[k],
\* texts[k+1], ... taken as they are.
RECURSIVE Splice(_, _, _, _)
SpliceAt(data, from, texts, k, p) ==
    SubSeq(data, from, p - 1) \o texts[k]
    \o Splice(data, Greatest(Closers(data, p)) + 2, texts, k + 1)

Splice(data, from, texts, k) ==
    IF Openers(data, from) = {} THEN SubSeq(data, from, Len(data))
    ELSE SpliceAt(data, from, texts, k, Least(Openers(data, from)))

HasDollar(data) == \E i \in 1..Len(data) : data[i] = DOLLAR

\* C1: when a root has directives whose files cannot be read, the resolved
\* content holds `File not found: <filename>` for each of them, and when no
\* directive of the root can be read the content is the root's content with
\* every directive replaced, at its position, by that text.
C1_PlaceholderAtDirective ==
    pc = "mkdirp" =>
        LET inc == Includes(Root)
        IN  /\ \A k \in 1..Len(inc) :
                  ~Readable(inc[k]) => Contains(contents, NotFound(inc[k]))
            /\ (Len(inc) > 0 /\ \A k \in 1..Len(inc) : ~Readable(inc[k]))
                  => contents = Splice(DataOf(Root), 1,
                                       [ k \in 1..Len(inc) |-> NotFound(inc[k]) ], 1)

\* C2: when the only directive of a root refers to a readable file F (with
\* no directive of its own when includes are recursive), the resolved
\* content is the root's content with the directive replaced at its
\* position by the content of F as it is, and the directive's text is gone
\* unless F itself holds it.
C2_VerbatimOnce ==
    pc = "mkdirp" =>
        LET inc == Includes(Root)
        IN  ( /\ Len(inc) = 1
              /\ Readable(inc[1])
              /\ includeRecursive => Len(Includes(inc[1])) = 0 )
            => /\ contents = Splice(DataOf(Root), 1, << DataOf(inc[1]) >>, 1)
               /\ ~Contains(DataOf(inc[1]), inc[1].string)
                     => ~Contains(contents, inc[1].string)

\* C3: removeIncludedFiles returns, in their order, exactly the files whose
\* filename is the last path segment of no referenced path of any match of
\* any input file.
C3_FragmentsExcluded ==
    pc \in { "writeFiles", "doFileInclude", "mkdirp", "done" } =>
        filesNotIncluded =
            SelectSeq(hasPattern,
                LAMBDA file :
                    \A g \in 1..Len(hasPattern) :
                        \A m \in 1..Len(hasPattern[g].matches) :
                            getFilename(hasPattern[g].matches[m].filename) # file.filename)

\* C3 witness: two files of the same filename in different directories are
\* excluded together while another file is kept.
C3_Witness ==
    /\ pc = "writeFiles"
    /\ Len(filesNotIncluded) > 0
    /\ \E i, j \in 1..Len(hasPattern) :
          /\ hasPattern[i].filename = hasPattern[j].filename
          /\ hasPattern[i].directory # hasPattern[j].directory
          /\ \A k \in 1..Len(filesNotIncluded) :
                filesNotIncluded[k].filename # hasPattern[i].filename

\* No chain of includes is longer than the number of files unless it runs
\* into a cycle.
Fuel == Cardinality(Paths)

\* Every file reached from file exists and can be read, and no chain of
\* includes from file comes back to a file of the chain.
RECURSIVE Resolvable(_, _)
Resolvable(file, fuel) ==
    /\ fuel > 0
    /\ Readable(file)
    /\ \A k \in 1..Len(Includes(file)) : Resolvable(Includes(file)[k], fuel - 1)

\* The flattened content of a resolvable file: every directive replaced at
\* its position by the flattened content of its file.
RECURSIVE Flatten(_, _)
Flatten(file, fuel) ==
    LET inc == Includes(file)
    IN  Splice(DataOf(file), 1, [ k \in 1..Len(inc) |-> Flatten(inc[k], fuel - 1) ], 1)

\* C4: with includeRecursive, a root whose include graph is acyclic and
\* whose referenced files all exist resolves to its flattened content, in
\* which no @@include( is left.
C4_FullyFlattened ==
    (pc = "mkdirp" /\ includeRecursive /\ Resolvable(Root, Fuel)) =>
        /\ contents = Flatten(Root, Fuel)
        /\ ~Contains(contents, <<INC>>)

\* C5: without includeRecursive, a root whose referenced files can all be
\* read resolves to its content with every directive replaced at its
\* position by the raw content of its file, and every directive written in
\* one of those files is still in the result.  (Stated for files without
\* a $ character.)
C5_SingleLevelRaw ==
    pc = "mkdirp" /\ ~includeRecursive =>
        LET inc == Includes(Root)
        IN  (\A k \in 1..Len(inc) : Readable(inc[k]) /\ ~HasDollar(DataOf(inc[k])))
            => /\ contents = Splice(DataOf(Root), 1,
                                    [ k \in 1..Len(inc) |-> DataOf(inc[k]) ], 1)
               /\ \A k \in 1..Len(inc) :
                     \A m \in 1..Len(Includes(inc[k])) :
                         Contains(contents, Includes(inc[k])[m].string)

RECURSIVE SumTo(_, _)
SumTo(f, n) == IF n = 0 THEN 0 ELSE f[n] + SumTo(f, n - 1)

\* No chain of includes from file comes back to a file of the chain.
RECURSIVE Acyclic(_, _)
Acyclic(file, fuel) ==
    \/ ~Readable(file)
    \/ /\ fuel > 0
       /\ \A k \in 1..Len(Includes(file)) : Acyclic(Includes(file)[k], fuel - 1)

\* The number of directive occurrences, at any depth below file, whose file
\* cannot be read.
RECURSIVE MissingBelow(_, _)
MissingBelow(file, fuel) ==
    LET inc == Includes(file)
    IN  SumTo([ k \in 1..Len(inc) |->
                  IF ~Readable(inc[k]) THEN 1 ELSE MissingBelow(inc[k], fuel - 1) ],
              Len(inc))

\* The number of directives of file itself whose file cannot be read.
MissingDirect(file) ==
    Cardinality({ k \in 1..Len(Includes(file)) : ~Readable(Includes(file)[k]) })

\* C6: when the first root has been resolved, summary.errors is the number
\* of directive occurrences whose file could not be read: those of the root
\* without includeRecursive, those at any depth with it (the include graph
\* being acyclic).
C6_OneErrorPerMissing ==
    pc = "mkdirp" /\ writeIdx = 1 =>
        /\ ~includeRecursive => summary.errors = MissingDirect(Root)
        /\ includeRecursive /\ Acyclic(Root, Fuel)
              => summary.errors = MissingBelow(Root, Fuel)

\* The index of the first candidate that is a directory, 0 when none is.
FirstFolder ==
    Least({ i \in 1..Len(foundFiles) : /\ ~readFileSync(foundFiles[i]).ok
                                       /\ readFileSync(foundFiles[i]).code = "EISDIR" })

\* C7: when the scan reached a candidate that is a directory, the error is
\* counted once, no later candidate was scanned and the candidates with
\* directives before it are kept.
C7_FolderCountedScanStops ==
    pc = "writeFiles" /\ writeIdx = 1 /\ FirstFolder # 0 =>
        /\ summary.errors = 1
        /\ \A g \in 1..Len(hasPattern) :
              \E i \in 1..(FirstFolder - 1) :
                 Join(hasPattern[g].directory, hasPattern[g].filename) = foundFiles[i]
        /\ \A i \in 1..(FirstFolder - 1) :
              Len(getMatches(readFileSync(foundFiles[i]).data)) # 0
                 => \E g \in 1..Len(hasPattern) :
                       Join(hasPattern[g].directory, hasPattern[g].filename) = foundFiles[i]

\* The write of the output of a root succeeds.
Writable(file) == Join(destination, OutputPath(file)) \notin unwritable

\* The number of roots before the n-th whose write succeeds.
WrittenBefore(n) ==
    Cardinality({ j \in 1..(n - 1) : Writable(filesNotIncluded[j]) })

\* The roots are attempted one by one in list order, and the counts follow
\* the writes.
C8_Counts ==
    /\ pc \in { "writeFiles", "doFileInclude", "mkdirp", "done" }
          => /\ writeIdx \in 1..(Len(filesNotIncluded) + 1)
             /\ summary.written = WrittenBefore(writeIdx)
             /\ DOMAIN output =
                   { Join(destination, OutputPath(filesNotIncluded[j])) :
                       j \in { i \in 1..(writeIdx - 1) : Writable(filesNotIncluded[i]) } }
    /\ pc = "doFileInclude" => stack[1].file = filesNotIncluded[writeIdx]
    /\ pc = "done" => /\ writeIdx = Len(filesNotIncluded) + 1
                      /\ reported[1] = WrittenBefore(Len(filesNotIncluded) + 1)

\* One write: the next root is the one after it, and either the file is
\* counted or the error is, by one.
C8_Write ==
    /\ pc = "mkdirp" =>
          /\ writeIdx' = writeIdx + 1
          /\ IF Writable(Root)
             THEN summary' = [ summary EXCEPT !.written = @ + 1 ]
             ELSE summary' = [ summary EXCEPT !.errors = @ + 1 ]
    /\ (writeIdx' # writeIdx \/ summary'.written # summary.written) => pc = "mkdirp"

\* C8: writeFiles attempts every root once, in list order; a failed write
\* adds one to summary.errors and nothing to summary.written, the later
\* roots are still resolved and written, and at the end summary.written is
\* the number of roots whose write succeeded.
C8_WriteFailureCounted == [] C8_Counts /\ [][C8_Write]_vars

\* C8 witness: the run is over, the write of the first root failed and a
\* later root was written.
C8_Witness ==
    /\ pc = "done"
    /\ Len(filesNotIncluded) > 1
    /\ ~Writable(filesNotIncluded[1])
    /\ summary.written > 0

\* The positions of the directive occurrences of data, from position from.
RECURSIVE PositionsFrom(_, _)
PositionsAt(data, p) ==
    <<p>> \o PositionsFrom(data, Greatest(Closers(data, p)) + 2)

PositionsFrom(data, from) ==
    IF Openers(data, from) = {} THEN <<>>
    ELSE PositionsAt(data, Least(Openers(data, from)))

NoDollarOnDisk == \A f \in Paths : disk[f].kind = "file" => ~HasDollar(disk[f].data)

\* C9: whenever a call replaces its current match, the text removed is the
\* occurrence of that match in the original content, moved by the lengths
\* of the replacements made before it: the k-th replacement removes the
\* k-th directive occurrence, never text that an earlier replacement
\* brought in.  (Stated for files without a $ character.)
C9_Step ==
    NoDollarOnDisk =>
        \A d \in 1..Len(stack) :
            (d <= Len(stack') /\ stack'[d].i = stack[d].i + 1) =>
                LET frame == stack[d]
                    raw   == DataOf(frame.file)
                IN  IndexOf(frame.contents, frame.matches[frame.i].string)
                        = PositionsFrom(raw, 1)[frame.i] + Len(frame.contents) - Len(raw)

C9_PositionalCorrespondence == [][C9_Step]_vars

\* C10: with includeRecursive a run always goes on to the final report,
\* also when the includes of a root come back to a file of the chain: it is
\* in one of the calls of init or it has logged the report, and it is never
\* ended before the report.
C10_RunCompletes ==
    includeRecursive =>
        pc \in { "checkForPattern", "writeFiles", "doFileInclude", "mkdirp", "done" }

\* The file of the source tree that an entry of hasPattern stands for.
PathOf(file) == Join(file.directory, file.filename)

\* The discovered files that can be read and hold at least one directive:
\* the pattern matches somewhere in their content.
WithDirective ==
    { f \in { foundFiles[i] : i \in 1..Len(foundFiles) } :
         /\ disk[f].kind = "file"
         /\ Openers(disk[f].data, 1) # {} }

\* f is a discovered file whose content holds no directive.
Plain(f) ==
    /\ \E i \in 1..Len(foundFiles) : foundFiles[i] = f
    /\ readFileSync(f).ok
    /\ Len(getMatches(readFileSync(f).data)) = 0

\* C11: only files that hold at least one directive become roots: a
\* discovered file without directives is dropped by the scan, is never among
\* the roots, is never the file that writeFiles resolves, and every file
\* written to the destination is the output of a root that holds a
\* directive, in every run and whether or not a directive refers to it.
C11_OnlyDirectiveFilesAreRoots ==
    LET with == WithDirective
    IN  /\ \A g \in 1..Len(hasPattern) : PathOf(hasPattern[g]) \in with
        /\ \A k \in 1..Len(filesNotIncluded) : PathOf(filesNotIncluded[k]) \in with
        /\ stack # <<>> => PathOf(stack[1].file) \in with
        /\ \A path \in DOMAIN output :
              \E k \in 1..Len(filesNotIncluded) :
                 /\ PathOf(filesNotIncluded[k]) \in with
                 /\ path = Join(destination, OutputPath(filesNotIncluded[k]))

\* C11 witness: the run is over and has written a file, while the
\* discovered file r holds no directive and no directive of any scanned
\* file refers to its filename.
C11_Witness ==
    /\ pc = "done"
    /\ summary.written > 0
    /\ Plain(FileR)
    /\ \A g \in 1..Len(hasPattern) :
          \A m \in 1..Len(hasPattern[g].matches) :
             getFilename(hasPattern[g].matches[m].filename) # getFilename(FileR)
    /\ Join(destination, <<"r">>) \notin DOMAIN output
    /\ Join(destination, FileR) \notin DOMAIN output

====
